---- MODULE Spec2Model ----
(***************************************************************************)
(* Model of the collaboration engine of packages/collaborate               *)
(* (src/packages/collaborate/src/collaborate.ts): the local -> shared      *)
(* batching of slot changes, the shared -> local replay of shared-text     *)
(* events with its selection adjustment, and the cursor history kept       *)
(* beside the undo manager's stacks.                                       *)
(*                                                                         *)
(* Content units are numbers: NL is Slot.emptyPlaceholder, the other       *)
(* numbers are characters.  A shared text is the sequence of its items,    *)
(* deleted ones included, each [id, ch, del].  A selection is <<>> (none)  *)
(* or <<anchorSlot, anchorOffset, focusSlot, focusOffset>>.  A cursor      *)
(* position (a pair of relative positions) is <<>> (null) or               *)
(* <<anchorSlot, anchorItem, focusSlot, focusItem>>, an item 0 standing    *)
(* for the end of the text.                                                *)
(***************************************************************************)
EXTENDS Integers, Sequences, FiniteSets, TLC

\* ---- bounds of the model
MaxEdits == 3
MaxGroupLen == 5
MaxSelLen == 5
MaxSelEdits == 1
MaxRecordLen == 3
MaxRecordEdits == 2
MaxTexts == 4
MaxListens == 2
MaxLifeEdits == 1
MaxCursorEdits == 1
MaxLoadEdits == 2

\* ---- program constants
stackSize == 1
NL == 0

Slots == {1, 2}
EditSlots == {1}
LocalStrings == {<<1>>}
RemoteStrings == {<<2>>}
SelStrings == {<<2>>, <<2, 2>>, <<2, 2, 2>>}
Counts == {1, 2}

\* Content units 3 and 4 are embedded components, by name; the registry has a
\* factory for 3 only.
Components == {3, 4}
Registry == {3}

Min(a, b) == IF a < b THEN a ELSE b
Max(a, b) == IF a > b THEN a ELSE b

\* ------------------------------------------------------------------
\* The local Slot (textbus core): an empty slot holds the placeholder.

SlotIsEmpty(c) == c = <<NL>>

\* Slot.retain(offset) without formats: the cursor index it leaves.
SlotRetain(c, offset) ==
  IF SlotIsEmpty(c) THEN 0 ELSE Max(0, Min(offset, Len(c)))

\* Slot.insert(content) at index: the new content.
SlotInsert(c, index, content) ==
  IF SlotIsEmpty(c) THEN content
  ELSE SubSeq(c, 1, index) \o content \o SubSeq(c, index + 1, Len(c))

\* The cursor index after Slot.insert(content) at index.
SlotInsertIndex(c, index, content) ==
  IF SlotIsEmpty(c) THEN Len(content) ELSE index + Len(content)

\* Slot.delete(count) at index: the new content.
SlotDelete(c, index, count) ==
  LET r == SubSeq(c, 1, index) \o SubSeq(c, Min(index + count, Len(c)) + 1, Len(c))
  IN IF r = <<>> THEN <<NL>> ELSE r

\* ------------------------------------------------------------------
\* The shared text (YText).

Visible(sh) == SelectSeq(sh, LAMBDA it : ~it.del)
VisLen(sh) == Len(Visible(sh))
VisChars(sh) == [i \in 1..VisLen(sh) |-> Visible(sh)[i].ch]
VisBefore(sh, p) == Cardinality({i \in 1..p : ~sh[i].del})

\* Where YText.insert(k, ..) puts its items: right after the k-th live item.
InsPos(sh, k) ==
  IF k > VisLen(sh) THEN Len(sh)
  ELSE CHOOSE p \in 0..Len(sh) :
         /\ VisBefore(sh, p) = k
         /\ \A q \in 0..(p - 1) : VisBefore(sh, q) < k

YInsert(sh, k, content, nid) ==
  LET p == InsPos(sh, k)
      new == [i \in 1..Len(content) |-> [id |-> nid + i - 1, ch |-> content[i], del |-> FALSE]]
  IN SubSeq(sh, 1, p) \o new \o SubSeq(sh, p + 1, Len(sh))

\* YText.delete(k, n): the live items k+1 .. k+n become deleted.
YDelete(sh, k, n) ==
  [i \in 1..Len(sh) |->
     IF ~sh[i].del /\ VisBefore(sh, i) > k /\ VisBefore(sh, i) <= k + n
     THEN [sh[i] EXCEPT !.del = TRUE] ELSE sh[i]]

\* ------------------------------------------------------------------
\* Local -> shared: the function queued by the slot's onContentChange
\* subscriber, applied to the shared text when the queue is flushed.
\* r = [sh, nid, offset]; one step per action of the change.

ApplyAction(r, a) ==
  CASE a.type = "retain" -> [r EXCEPT !.offset = a.offset]
    [] a.type = "contentInsert" ->
         LET isEmpty == VisChars(r.sh) = <<NL>>
             s1 == YInsert(r.sh, r.offset, a.content, r.nid)
             s2 == IF isEmpty /\ r.offset = 0
                   THEN YDelete(s1, VisLen(s1) - 1, 1) ELSE s1
         IN [sh |-> s2, nid |-> r.nid + Len(a.content),
             offset |-> r.offset + Len(a.content)]
    [] a.type = "delete" ->
         LET s1 == IF VisLen(r.sh) > 0 THEN YDelete(r.sh, r.offset, a.count) ELSE r.sh
         IN IF VisLen(s1) = 0
            THEN [r EXCEPT !.sh = YInsert(s1, 0, <<NL>>, r.nid), !.nid = r.nid + 1]
            ELSE [r EXCEPT !.sh = s1]

RECURSIVE ApplyActions(_, _)
ApplyActions(r, actions) ==
  IF actions = <<>> THEN r
  ELSE ApplyActions(ApplyAction(r, Head(actions)), Tail(actions))

\* The change a local Slot.insert / Slot.delete emits.
InsertActions(offset, content) ==
  <<[type |-> "retain", offset |-> offset],
    [type |-> "contentInsert", content |-> content]>>

DeleteActions(offset, count) ==
  <<[type |-> "retain", offset |-> offset],
    [type |-> "delete", count |-> count]>>

\* ------------------------------------------------------------------
\* The delta of a YTextEvent: what one transaction did to a shared text,
\* read off its items before and after.

WasLive(before, id) == \E i \in 1..Len(before) : before[i].id = id /\ ~before[i].del

ItemOp(before, it) ==
  IF WasLive(before, it.id)
  THEN IF it.del THEN [type |-> "delete", n |-> 1, content |-> <<>>]
       ELSE [type |-> "retain", n |-> 1, content |-> <<>>]
  ELSE IF it.del THEN [type |-> "none", n |-> 0, content |-> <<>>]
       ELSE [type |-> "insert", n |-> 1, content |-> <<it.ch>>]

RECURSIVE MergeOps(_, _)
MergeOps(acc, ops) ==
  IF ops = <<>> THEN acc
  ELSE LET o == Head(ops) IN
    IF o.type = "none" THEN MergeOps(acc, Tail(ops))
    ELSE IF /\ acc # <<>> /\ acc[Len(acc)].type = o.type
            /\ o.type = "insert" =>
                 o.content[1] \notin Components
                 /\ acc[Len(acc)].content[Len(acc[Len(acc)].content)] \notin Components
    THEN MergeOps([acc EXCEPT ![Len(acc)] =
                     [type |-> o.type, n |-> @.n + o.n, content |-> @.content \o o.content]],
                  Tail(ops))
    ELSE MergeOps(Append(acc, o), Tail(ops))

RECURSIVE DropTrailingRetain(_)
DropTrailingRetain(d) ==
  IF d # <<>> /\ d[Len(d)].type = "retain"
  THEN DropTrailingRetain(SubSeq(d, 1, Len(d) - 1)) ELSE d

Delta(before, after) ==
  DropTrailingRetain(MergeOps(<<>>, [i \in 1..Len(after) |-> ItemOp(before, after[i])]))

\* ------------------------------------------------------------------
\* The selection collaborator.

IsSelected(sel) == sel # <<>> /\ sel[1] # 0 /\ sel[3] # 0

\* Selection.startOffset: the offset of whichever endpoint comes first.
StartOffset(sel) ==
  IF sel[1] < sel[3] \/ (sel[1] = sel[3] /\ sel[2] <= sel[4]) THEN sel[2] ELSE sel[4]

SetAnchor(sel, s, offset, c) == <<s, SlotRetain(c, offset), sel[3], sel[4]>>
SetFocus(sel, s, offset, c) == <<sel[1], sel[2], s, SlotRetain(c, offset)>>

\* ------------------------------------------------------------------
\* Shared -> local: syncRemote's replay of one event into the local slot.

\* A runLocalUpdate that queues the replay's own mutations, unrecorded.
RunLocalUpdateNoRecord(q, updateFromRemote, item) ==
  Append(q, [item EXCEPT !.record = ~updateFromRemote])

RunLocalUpdate(q, updateFromRemote, item) ==
  IF updateFromRemote THEN q ELSE Append(q, item)

\* The insert adjustment with >= for >.
AdjustOnInsertAtIndex(sel, slot, index, length, c, origin) ==
  IF IsSelected(sel) /\ origin # "manager"
  THEN LET s1 == IF slot = sel[1] /\ sel[2] >= index
                 THEN SetAnchor(sel, slot, sel[2] + length, c)
                 ELSE sel
       IN IF slot = s1[3] /\ s1[4] >= index
          THEN SetFocus(s1, slot, s1[4] + length, c)
          ELSE s1
  ELSE sel

AdjustOnInsert(sel, slot, index, length, c, origin) ==
  IF IsSelected(sel) /\ origin # "manager"
  THEN LET s1 == IF slot = sel[1] /\ sel[2] > index
                 THEN SetAnchor(sel, slot, sel[2] + length, c)
                 ELSE sel
       IN IF slot = s1[3] /\ s1[4] > index
          THEN SetFocus(s1, slot, s1[4] + length, c)
          ELSE s1
  ELSE sel

\* The delete adjustment without the test of the origin.
AdjustOnDeleteAnyOrigin(sel, slot, index, count, c, origin) ==
  IF IsSelected(sel)
  THEN LET s1 == IF slot = sel[1] /\ sel[2] >= index
                 THEN SetAnchor(sel, slot, StartOffset(sel) - count, c)
                 ELSE sel
       IN IF slot = s1[3] /\ s1[4] >= index
          THEN SetFocus(s1, slot, s1[4] - count, c)
          ELSE s1
  ELSE sel

AdjustOnDelete(sel, slot, index, count, c, origin) ==
  IF IsSelected(sel) /\ origin # "manager"
  THEN LET s1 == IF slot = sel[1] /\ sel[2] >= index
                 THEN SetAnchor(sel, slot, StartOffset(sel) - count, c)
                 ELSE sel
       IN IF slot = s1[3] /\ s1[4] >= index
          THEN SetFocus(s1, slot, s1[4] - count, c)
          ELSE s1
  ELSE sel

\* A materialisation that takes the registry's null for a component.
CreateLocalComponentBySharedComponentNoThrow(name) ==
  [thrown |-> FALSE, instance |-> name]

\* createLocalComponentBySharedComponent: the instance the registry makes for
\* the name, or the error `cannot find component factory`.
CreateLocalComponentBySharedComponent(name) ==
  IF name \in Registry
  THEN [thrown |-> FALSE, instance |-> name]
  ELSE [thrown |-> TRUE, instance |-> name]

\* Whether the insert of an action's content throws: text never does.
InsertThrows(content) ==
  content[1] \in Components /\ CreateLocalComponentBySharedComponent(content[1]).thrown

\* r = [c, idx, sel, queue, flag, muts, thrown]: the slot's content and cursor
\* index, the selection, the pending queue, updateFromRemote, the local
\* mutations made so far, and whether the callback has thrown.
ReplayAction(r, a, slot, origin) ==
  CASE a.type = "retain" -> [r EXCEPT !.idx = SlotRetain(r.c, a.n)]
    [] a.type = "insert" /\ InsertThrows(a.content) -> [r EXCEPT !.thrown = TRUE]
    [] a.type = "insert" /\ ~InsertThrows(a.content) ->
         LET c1 == SlotInsert(r.c, r.idx, a.content)
         IN [r EXCEPT !.c = c1,
                      !.idx = SlotInsertIndex(r.c, r.idx, a.content),
                      !.sel = AdjustOnInsert(r.sel, slot, r.idx, Len(a.content), c1, origin),
                      !.queue = RunLocalUpdate(r.queue, r.flag,
                                  [record |-> TRUE, slot |-> slot, n |-> 0,
                                   actions |-> InsertActions(r.idx, a.content)]),
                      !.muts = r.muts + 1]
    [] a.type = "delete" ->
         LET c1 == SlotDelete(r.c, r.idx, a.n)
         IN [r EXCEPT !.c = c1,
                      !.sel = AdjustOnDelete(r.sel, slot, r.idx, a.n, c1, origin),
                      !.queue = RunLocalUpdate(r.queue, r.flag,
                                  [record |-> TRUE, slot |-> slot, n |-> 0,
                                   actions |-> DeleteActions(r.idx, a.n)]),
                      !.muts = r.muts + 1]

RECURSIVE ReplayDelta(_, _, _, _)
ReplayDelta(r, delta, slot, origin) ==
  IF delta = <<>> \/ r.thrown THEN r
  ELSE ReplayDelta(ReplayAction(r, Head(delta), slot, origin), Tail(delta), slot, origin)

\* syncRemote's callback run under runRemoteUpdate's flag, on the engine
\* state e.
\* The engine when the callback has returned with r, or has thrown:
\* runRemoteUpdate resets the flag after the callback, in no finally.
Replayed(e, r, origin, slot) ==
  [e EXCEPT !.local[slot] = r.c,
            !.selection = r.sel,
            !.queue = r.queue,
            !.updateFromRemote = r.thrown,
            !.thrown = @ \/ r.thrown,
            !.pending = IF r.muts = 0 THEN @
                        ELSE @ \cup {IF origin = "manager" THEN "History" ELSE "Remote"}]

\* A replay that runs its callback with the flag down.
SyncRemoteNoFlag(e, origin, slot, delta) ==
  Replayed(e,
           ReplayDelta([c |-> e.local[slot], idx |-> SlotRetain(e.local[slot], 0),
                        sel |-> e.selection, queue |-> e.queue, flag |-> FALSE,
                        muts |-> 0, thrown |-> FALSE],
                       delta, slot, origin),
           origin, slot)

SyncRemote(e, origin, slot, delta) ==
  Replayed(e,
           ReplayDelta([c |-> e.local[slot], idx |-> SlotRetain(e.local[slot], 0),
                        sel |-> e.selection, queue |-> e.queue, flag |-> TRUE,
                        muts |-> 0, thrown |-> FALSE],
                       delta, slot, origin),
           origin, slot)

\* A runRemoteUpdate that replays its own writes too.
RunRemoteUpdateNoEcho(e, origin, slot, delta) == SyncRemote(e, origin, slot, delta)

RunRemoteUpdate(e, origin, slot, delta) ==
  IF origin = "yDoc" THEN e ELSE SyncRemote(e, origin, slot, delta)

\* ------------------------------------------------------------------
\* SlotMap: the two tables between local slots and shared texts. A shared text
\* is a number of Texts; 0 stands for no entry. In the engine the text of
\* slot s is text s, whose items are shared[s].

VARIABLES
  slotAndYTextMap,  \* slotMap.slotAndYTextMap: slot -> text or 0
  yTextAndSLotMap,  \* slotMap.yTextAndSLotMap: text -> slot or 0
  observers,        \* <<text, slot>>: syncSlot's observer, subscription and destroy callback
  nextText          \* the next shared text to be made

Texts == 1..MaxTexts

\* m = [s2t, t2s]
SlotMapSet(m, slot, text) ==
  [s2t |-> [m.s2t EXCEPT ![slot] = text], t2s |-> [m.t2s EXCEPT ![text] = slot]]

SlotMapDelete(m, slot) ==
  LET v == m.s2t[slot]
  IN [s2t |-> [m.s2t EXCEPT ![slot] = 0],
      t2s |-> IF v # 0 THEN [m.t2s EXCEPT ![v] = 0] ELSE m.t2s]

SlotMap == [s2t |-> slotAndYTextMap, t2s |-> yTextAndSLotMap]

\* ------------------------------------------------------------------
\* The cursor translator.

RelOf(sh, off) == IF off < VisLen(sh) THEN Visible(sh)[off + 1].id ELSE 0

AbsOf(sh, id) ==
  IF id = 0 THEN VisLen(sh)
  ELSE VisBefore(sh, (CHOOSE p \in 1..Len(sh) : sh[p].id = id) - 1)

\* createAbsolutePositionFromRelativePosition gives null for a position in a
\* text the document has collected (a text with no items), and resolves a
\* deleted item of a text it still has.
Resolvable(sh, id) == sh # <<>> /\ (id = 0 \/ \E p \in 1..Len(sh) : sh[p].id = id)

\* A capture that does not look at the focus slot's text.
GetRelativeCursorLocationAnchorOnly(sel, shared) ==
  IF sel # <<>> /\ sel[1] # 0 /\ slotAndYTextMap[sel[1]] # 0 /\ sel[3] # 0
  THEN LET a == slotAndYTextMap[sel[1]]
           f == IF slotAndYTextMap[sel[3]] # 0 THEN slotAndYTextMap[sel[3]] ELSE a
       IN <<a, RelOf(shared[a], sel[2]), f, RelOf(shared[f], sel[4])>>
  ELSE <<>>

\* A selection is <<>> or <<anchorSlot, anchorOffset, focusSlot, focusOffset>>,
\* a slot 0 standing for an endpoint that is not set.
GetRelativeCursorLocation(sel, shared) ==
  IF sel # <<>> /\ sel[1] # 0
  THEN LET anchorYText == slotAndYTextMap[sel[1]]
       IN IF anchorYText # 0
          THEN IF sel[3] # 0
               THEN LET focusYText == slotAndYTextMap[sel[3]]
                    IN IF focusYText # 0
                       THEN <<anchorYText, RelOf(shared[anchorYText], sel[2]),
                              focusYText, RelOf(shared[focusYText], sel[4])>>
                       ELSE <<>>
               ELSE <<>>
          ELSE <<>>
  ELSE <<>>

\* A resolution that takes the text's number for the slot when the table has
\* no slot for it.
GetAbstractSelectionNoSlotTest(pos, shared) ==
  IF Resolvable(shared[pos[1]], pos[2]) /\ Resolvable(shared[pos[3]], pos[4])
  THEN <<pos[1], AbsOf(shared[pos[1]], pos[2]), pos[3], AbsOf(shared[pos[3]], pos[4])>>
  ELSE <<>>

\* pos = <<anchorText, anchorItem, focusText, focusItem>>
GetAbstractSelection(pos, shared) ==
  IF Resolvable(shared[pos[1]], pos[2]) /\ Resolvable(shared[pos[3]], pos[4])
  THEN LET focusSlot == yTextAndSLotMap[pos[3]]
           anchorSlot == yTextAndSLotMap[pos[1]]
       IN IF focusSlot # 0 /\ anchorSlot # 0
          THEN <<anchorSlot, AbsOf(shared[pos[1]], pos[2]),
                 focusSlot, AbsOf(shared[pos[3]], pos[4])>>
          ELSE <<>>
  ELSE <<>>

\* Selection.setBaseAndExtent.
SetBaseAndExtent(sel, local) ==
  <<sel[1], SlotRetain(local[sel[1]], sel[2]), sel[3], SlotRetain(local[sel[3]], sel[4])>>

\* ------------------------------------------------------------------
\* What listen() makes and destroy() releases.

VARIABLES
  manager,          \* this.manager: "null", "live", or "destroyed" (after manager.destroy())
  subscriptions,    \* the live sets of listen()'s subscriptions in this.subscriptions
  oldManagers,      \* the undo managers an earlier listen() made and a later one replaced
  listens,          \* the calls of listen() so far
  emitted           \* what the last operation emitted, in order

lifeVars == <<manager, subscriptions, oldManagers, listens, emitted>>

\* ------------------------------------------------------------------
\* The cursor history beside the undo manager's stacks.

Hole == [hole |-> TRUE, before |-> <<>>, after |-> <<>>, n |-> 0]

\* historyItems.length = n
SetLength(h, n) ==
  IF n <= Len(h) THEN SubSeq(h, 1, n)
  ELSE h \o [i \in 1..(n - Len(h)) |-> Hole]

\* The 'stack-item-added' handler; type and origin are the event's, n the
\* number of the edit the new stack item stands for.
StackItemAdded(e, type, origin, n) ==
  LET e1 == IF type = "undo"
            THEN IF origin = "manager"
                 THEN [e EXCEPT !.index = @ + 1]
                 ELSE [e EXCEPT !.historyItems =
                                   Append(SetLength(@, e.index),
                                          [hole |-> FALSE,
                                           before |-> e.beforePosition,
                                           after |-> GetRelativeCursorLocation(e.selection, e.shared),
                                           n |-> n]),
                                !.index = @ + 1]
            ELSE [e EXCEPT !.index = @ - 1]
  IN IF Len(e1.undoStack) > stackSize
     THEN [e1 EXCEPT !.historyItems = IF @ = <<>> THEN @ ELSE Tail(@),
                     !.undoStack = Tail(@)]
     ELSE e1

\* The 'stack-item-popped' handler.
StackItemPopped(e, type) ==
  LET i == IF type = "undo" THEN e.index ELSE e.index - 1
      position == IF i + 1 \in 1..Len(e.historyItems) THEN e.historyItems[i + 1] ELSE Hole
      p == IF type = "undo" THEN position.before ELSE position.after
      selection == IF p # <<>> THEN GetAbstractSelection(p, e.shared) ELSE <<>>
  IN IF selection # <<>>
     THEN [e EXCEPT !.selection = SetBaseAndExtent(selection, e.local)]
     ELSE [e EXCEPT !.selection = <<>>]

\* ------------------------------------------------------------------
\* The undo manager (yjs) and a transaction of the shared document.

Tracked(origin) == origin \in {"yDoc", "manager"}

AllItems(shared) == UNION {{shared[s][i] : i \in 1..Len(shared[s])} : s \in Slots}
LiveIds(shared) == {it.id : it \in {x \in AllItems(shared) : ~x.del}}
DeadIds(shared) == {it.id : it \in {x \in AllItems(shared) : x.del}}

\* The undo manager's afterTransaction handler. mode is "none", "undoing" or
\* "redoing"; elapsed says the capture timeout has passed since the last
\* captured change.
ManagerAfterTransaction(e, origin, before, mode, elapsed, n) ==
  IF ~Tracked(origin) \/ before = e.shared THEN e
  ELSE
    LET ins == LiveIds(e.shared) \ LiveIds(before)
        dels == DeadIds(e.shared) \cap LiveIds(before)
        e1 == IF mode = "undoing" THEN [e EXCEPT !.capturing = FALSE]
              ELSE IF mode = "none" THEN [e EXCEPT !.redoStack = <<>>]
              ELSE e
        stack == IF mode = "undoing" THEN e1.redoStack ELSE e1.undoStack
        merge == e1.capturing /\ ~elapsed /\ stack # <<>> /\ mode = "none"
        item == IF merge
                THEN [ins |-> stack[Len(stack)].ins \cup ins,
                      dels |-> stack[Len(stack)].dels \cup dels,
                      n |-> stack[Len(stack)].n]
                ELSE [ins |-> ins, dels |-> dels, n |-> n]
        stack1 == IF merge THEN [stack EXCEPT ![Len(stack)] = item] ELSE Append(stack, item)
        e2 == IF mode = "undoing" THEN [e1 EXCEPT !.redoStack = stack1]
              ELSE [e1 EXCEPT !.undoStack = stack1]
        e3 == IF mode = "none" THEN [e2 EXCEPT !.capturing = TRUE] ELSE e2
    IN IF merge THEN e3
       ELSE StackItemAdded(e3, IF mode = "undoing" THEN "redo" ELSE "undo", origin, n)

\* The handler of this.manager, which manager.destroy() takes off the document.
AfterTransaction(e, origin, before, mode, elapsed, n) ==
  IF manager = "live" THEN ManagerAfterTransaction(e, origin, before, mode, elapsed, n)
  ELSE e

\* The handlers of the managers a later listen() replaced: they stay on the
\* document, track the document's origin, and their stack handlers write the
\* same historyItems and index. k is the number of them still to run.
\* The engine with the stacks of the replaced manager m in the place of
\* this.manager's, and back: e1 is what m's handlers made of it.
AsOldManager(e, m) ==
  [e EXCEPT !.undoStack = m.undoStack, !.redoStack = m.redoStack, !.capturing = m.capturing]

OfOldManager(e, i, e1) ==
  [e1 EXCEPT !.undoStack = e.undoStack, !.redoStack = e.redoStack,
             !.capturing = e.capturing,
             !.oldManagers[i] = [undoStack |-> e1.undoStack,
                                 redoStack |-> e1.redoStack,
                                 capturing |-> e1.capturing]]

RECURSIVE OldManagersAfterTransaction(_, _, _, _, _, _)
OldManagersAfterTransaction(e, k, origin, before, elapsed, n) ==
  IF k = 0 \/ origin # "yDoc" THEN e
  ELSE OldManagersAfterTransaction(
         OfOldManager(e, Len(e.oldManagers) - k + 1,
                      ManagerAfterTransaction(
                        AsOldManager(e, e.oldManagers[Len(e.oldManagers) - k + 1]),
                        origin, before, "none", elapsed, n)),
         k - 1, origin, before, elapsed, n)

\* The observers of the shared texts a transaction changed, in slot order.
RECURSIVE Observe(_, _, _, _)
Observe(e, origin, before, slots) ==
  IF slots = {} THEN e
  ELSE LET s == CHOOSE x \in slots : \A y \in slots : x <= y
       IN Observe(IF before[s] = e.shared[s] \/ <<s, s>> \notin observers THEN e
                  ELSE RunRemoteUpdate(e, origin, s, Delta(before[s], e.shared[s])),
                  origin, before, slots \ {s})

\* The document's afterTransaction handlers, run when the observers have
\* made e2 of the engine: the replaced managers' first.
AfterObservers(e2, origin, before, mode, elapsed, n) ==
  [mid |-> e2.selection,
   e |-> AfterTransaction(
           OldManagersAfterTransaction(e2, Len(e2.oldManagers), origin, before, elapsed, n),
           origin, before, mode, elapsed, n)]

\* yDoc.transact(fn, origin), fn having made `shared` of e.shared.
Transact(e, origin, shared, nid, mode, elapsed, n) ==
  AfterObservers(Observe([e EXCEPT !.shared = shared, !.nextId = nid],
                         origin, e.shared, Slots),
                 origin, e.shared, mode, elapsed, n)

NoItem == [ins |-> {}, dels |-> {}, n |-> 0]

\* What undoing (redoing) a stack item does to the shared texts: the items it
\* inserted are deleted, the items it deleted come back.
Revert(shared, item) ==
  [s \in Slots |->
     [i \in 1..Len(shared[s]) |->
        IF shared[s][i].id \in item.ins /\ ~shared[s][i].del
        THEN [shared[s][i] EXCEPT !.del = TRUE]
        ELSE IF shared[s][i].id \in (item.dels \ item.ins) /\ shared[s][i].del
        THEN [shared[s][i] EXCEPT !.del = FALSE]
        ELSE shared[s][i]]]

\* popStackItem's loop: pop until an item changes something.
RECURSIVE PopStack(_, _)
PopStack(stack, shared) ==
  IF stack = <<>> THEN [stack |-> stack, shared |-> shared, found |-> FALSE, result |-> NoItem]
  ELSE LET item == stack[Len(stack)]
           rest == SubSeq(stack, 1, Len(stack) - 1)
           after == Revert(shared, item)
       IN IF after = shared THEN PopStack(rest, shared)
          ELSE [stack |-> rest, shared |-> after, found |-> TRUE, result |-> item]

\* The 'stack-item-popped' event after the transaction t of an undo or redo
\* that found an item; manager.destroy() has taken the handler off.
AfterPop(t, found, type) ==
  [mid |-> t.mid,
   e |-> IF found /\ manager = "live" THEN StackItemPopped(t.e, type) ELSE t.e]

\* manager.undo()
Undo(e) ==
  LET r == PopStack(e.undoStack, e.shared)
  IN AfterPop(Transact([e EXCEPT !.undoStack = r.stack], "manager", r.shared, e.nextId,
                       "undoing", FALSE, r.result.n),
              r.found, "undo")

\* manager.redo()
Redo(e) ==
  LET r == PopStack(e.redoStack, e.shared)
  IN AfterPop(Transact([e EXCEPT !.redoStack = r.stack], "manager", r.shared, e.nextId,
                       "redoing", FALSE, r.result.n),
              r.found, "redo")

\* ------------------------------------------------------------------
\* The flush of the pending queue on the batching signal.

\* A grouping that starts an update for every item.
GroupUpdatesNoMerge(updates, q) ==
  [i \in 1..Len(q) |-> [record |-> q[i].record, actions |-> <<q[i]>>]]

\* A grouping that puts the item that starts an update into it twice.
RECURSIVE GroupUpdatesTwice(_, _)
GroupUpdatesTwice(updates, q) ==
  IF q = <<>> THEN updates
  ELSE LET item == Head(q)
           k == Len(updates)
       IN IF k > 0 /\ updates[k].record = item.record
          THEN GroupUpdatesTwice([updates EXCEPT ![k].actions = Append(@, item)], Tail(q))
          ELSE GroupUpdatesTwice(Append(updates, [record |-> item.record,
                                                  actions |-> <<item, item>>]),
                                 Tail(q))

\* The grouping loop: runs of equal record, in order.
RECURSIVE GroupUpdates(_, _)
GroupUpdates(updates, q) ==
  IF q = <<>> THEN updates
  ELSE LET item == Head(q)
           k == Len(updates)
       IN IF k > 0 /\ updates[k].record = item.record
          THEN GroupUpdates([updates EXCEPT ![k].actions = Append(@, item)], Tail(q))
          ELSE GroupUpdates(Append(updates, [record |-> item.record, actions |-> <<item>>]),
                            Tail(q))

\* An origin that is the document for every update.
TransactionOriginAlwaysDoc(update) == "yDoc"

TransactionOrigin(update) == IF update.record THEN "yDoc" ELSE "noRecord"

\* The functions of one update, run in order inside its transaction.
RECURSIVE RunActions(_, _, _)
RunActions(shared, nid, items) ==
  IF items = <<>> THEN [shared |-> shared, nid |-> nid]
  ELSE LET it == Head(items)
           r == ApplyActions([sh |-> shared[it.slot], nid |-> nid, offset |-> 0], it.actions)
       IN RunActions([shared EXCEPT ![it.slot] = r.sh], r.nid, Tail(items))

\* One transaction per update; log is the list of transactions made.
RECURSIVE TransactUpdates(_, _, _, _)
TransactUpdates(e, log, updates, elapsed) ==
  IF updates = <<>> THEN [e |-> e, log |-> log]
  ELSE LET u == Head(updates)
           r == RunActions(e.shared, e.nextId, u.actions)
           t == Transact(e, TransactionOrigin(u), r.shared, r.nid, "none", elapsed,
                         u.actions[Len(u.actions)].n)
       IN TransactUpdates(t.e,
                          Append(log, [origin |-> TransactionOrigin(u),
                                       items |-> [i \in 1..Len(u.actions) |-> u.actions[i].n]]),
                          Tail(updates), FALSE)

\* ------------------------------------------------------------------
\* State.

VARIABLES
  local,            \* slot -> content of the local slot
  shared,           \* slot -> items of its shared text
  nextId,           \* next item id of the shared document
  queue,            \* updateRemoteActions
  updateFromRemote,
  pending,          \* origins of the changes the scheduler has batched
  selection,
  beforePosition,
  historyItems,
  index,
  undoStack,        \* manager.undoStack
  redoStack,        \* manager.redoStack
  capturing,        \* the undo manager may still append to its last stack item
  nEdits,           \* local edits and remote events so far
  last,             \* the last step taken: [kind, slot, off, n]
  prev,             \* local, selection and queue before the last step
  txLog,            \* the transactions of the last flush
  midSel,           \* the selection when the last replay returned
  thrown            \* the last step ended in `cannot find component factory`

\* A subtree under conversion, with its formats, attributes and schema.
VARIABLES
  subLocal,         \* <<the local slot>>, or <<>> when there is none
  subShared,        \* <<the shared text of the slot>>, or <<>>
  subDrawn,         \* <<the local slot the conversions started from>>, or <<>>
  subLast           \* the last conversion step: [kind, component, formatted]

subVars == <<subLocal, subShared, subDrawn, subLast>>

vars == <<local, shared, nextId, queue, updateFromRemote, pending, selection,
          beforePosition, historyItems, index, undoStack, redoStack, capturing,
          nEdits, last, prev, txLog, midSel, thrown,
          slotAndYTextMap, yTextAndSLotMap, observers, nextText,
          manager, subscriptions, oldManagers, listens, emitted,
          subLocal, subShared, subDrawn, subLast>>

mapVars == <<slotAndYTextMap, yTextAndSLotMap, observers, nextText>>

Eng ==
  [local |-> local, shared |-> shared, nextId |-> nextId, queue |-> queue,
   updateFromRemote |-> updateFromRemote, pending |-> pending,
   selection |-> selection, beforePosition |-> beforePosition,
   historyItems |-> historyItems, index |-> index, undoStack |-> undoStack,
   redoStack |-> redoStack, capturing |-> capturing, oldManagers |-> oldManagers,
   thrown |-> FALSE]

SetEng(e) ==
  /\ local' = e.local
  /\ shared' = e.shared
  /\ nextId' = e.nextId
  /\ queue' = e.queue
  /\ updateFromRemote' = e.updateFromRemote
  /\ pending' = e.pending
  /\ selection' = e.selection
  /\ beforePosition' = e.beforePosition
  /\ historyItems' = e.historyItems
  /\ index' = e.index
  /\ undoStack' = e.undoStack
  /\ redoStack' = e.redoStack
  /\ capturing' = e.capturing
  /\ oldManagers' = e.oldManagers
  /\ thrown' = e.thrown

\* r = [mid, e]: the engine and the selection at the end of the replay.
SetResult(r) == SetEng(r.e) /\ midSel' = r.mid

Step(kind, slot, off, n) == [kind |-> kind, slot |-> slot, off |-> off, n |-> n]
NoPrev == [local |-> <<>>, selection |-> <<>>, queue |-> <<>>]
Prev == [local |-> local, selection |-> selection, queue |-> queue]

\* No subtree is under conversion.
InitNoSubtree ==
  /\ subLocal = <<>>
  /\ subShared = <<>>
  /\ subDrawn = <<>>
  /\ subLast = [kind |-> "none", component |-> FALSE, formatted |-> FALSE]

\* The engine after construction, before any edit.
InitEngine ==
  /\ nextId = Cardinality(Slots) + MaxSelLen + 1
  /\ updateFromRemote = FALSE
  /\ beforePosition = <<>>
  /\ historyItems = <<>>
  /\ index = 0
  /\ undoStack = <<>>
  /\ redoStack = <<>>
  /\ capturing = FALSE
  /\ nEdits = 0
  /\ last = Step("init", 0, 0, 0)
  /\ prev = NoPrev
  /\ txLog = <<>>
  /\ midSel = <<>>
  /\ thrown = FALSE

\* The tables after createSharedSlotByLocalSlot has run once for every slot.
InitBridged ==
  /\ slotAndYTextMap = [s \in Slots |-> s]
  /\ yTextAndSLotMap = [t \in Texts |-> IF t \in Slots THEN t ELSE 0]
  /\ observers = {<<s, s>> : s \in Slots}
  /\ nextText = Cardinality(Slots) + 1

\* After one listen().
InitListened ==
  /\ manager = "live"
  /\ subscriptions = 1
  /\ oldManagers = <<>>
  /\ listens = 1
  /\ emitted = <<>>

\* The shared text createSharedSlotByLocalSlot makes of a slot's content.
SharedOf(s, c) ==
  [i \in 1..Len(c) |->
     [id |-> IF i = 1 THEN s ELSE Cardinality(Slots) + i - 1, ch |-> c[i], del |-> FALSE]]

\* After listen() on a document of empty slots.
Init ==
  /\ InitEngine
  /\ InitNoSubtree
  /\ InitListened
  /\ InitBridged
  /\ local = [s \in Slots |-> <<NL>>]
  /\ shared = [s \in Slots |-> SharedOf(s, <<NL>>)]
  /\ selection = <<>>
  /\ queue = <<>>
  /\ pending = {}

\* ------------------------------------------------------------------
\* Local edits: the editor's commands on a slot, which leave the caret behind
\* the inserted content, or where the deleted content was.

Caret(s, off) == <<s, off, s, off>>

\* scheduler.onLocalChangeBefore: fires before the first local change of a batch.
LocalChangeBefore(e) ==
  IF "Local" \in e.pending \/ subscriptions = 0 THEN e
  ELSE [e EXCEPT !.beforePosition = GetRelativeCursorLocation(e.selection, e.shared)]

LocalInsertOf(maxEdits) ==
  /\ nEdits < maxEdits
  /\ \E s \in EditSlots, off \in 0..MaxEdits * 2, content \in LocalStrings :
      /\ <<s, s>> \in observers
      /\ off = SlotRetain(local[s], off)
      /\ LET e0 == LocalChangeBefore(Eng)
             c1 == SlotInsert(local[s], off, content)
         IN SetEng([e0 EXCEPT
              !.local[s] = c1,
              !.queue = RunLocalUpdate(@, e0.updateFromRemote,
                          [record |-> TRUE, slot |-> s, n |-> nEdits + 1,
                           actions |-> InsertActions(off, content)]),
              !.pending = @ \cup {"Local"},
              !.selection = Caret(s, SlotInsertIndex(local[s], off, content))])
      /\ nEdits' = nEdits + 1
      /\ last' = Step("localInsert", s, off, Len(content))
      /\ prev' = Prev /\ txLog' = <<>> /\ midSel' = <<>>
      /\ emitted' = <<>>
      /\ UNCHANGED <<mapVars, subVars, manager, subscriptions, listens>>

LocalInsert == LocalInsertOf(MaxEdits)

LocalDelete ==
  /\ nEdits < MaxEdits
  /\ \E s \in EditSlots, off \in 0..MaxEdits * 2, count \in Counts :
      /\ <<s, s>> \in observers
      /\ ~SlotIsEmpty(local[s])
      /\ off + count <= Len(local[s])
      /\ LET e0 == LocalChangeBefore(Eng)
             c1 == SlotDelete(local[s], off, count)
         IN SetEng([e0 EXCEPT
              !.local[s] = c1,
              !.queue = RunLocalUpdate(@, e0.updateFromRemote,
                          [record |-> TRUE, slot |-> s, n |-> nEdits + 1,
                           actions |-> DeleteActions(off, count)]),
              !.pending = @ \cup {"Local"},
              !.selection = Caret(s, SlotRetain(c1, off))])
      /\ nEdits' = nEdits + 1
      /\ last' = Step("localDelete", s, off, count)
      /\ prev' = Prev /\ txLog' = <<>> /\ midSel' = <<>>
      /\ emitted' = <<>>
      /\ UNCHANGED <<mapVars, subVars, manager, subscriptions, listens>>

\* ------------------------------------------------------------------
\* Events of the shared document made by another participant, whose engine
\* turns its own slot change into the shared change as this one does.

RemoteInsertOf(strings, maxEdits) ==
  /\ nEdits < maxEdits
  /\ \E s \in EditSlots, k \in 0..(MaxEdits + MaxSelLen) * 2, content \in strings :
      /\ <<s, s>> \in observers
      /\ k = SlotRetain(VisChars(shared[s]), k)
      /\ LET r == ApplyActions([sh |-> shared[s], nid |-> nextId, offset |-> 0],
                               InsertActions(k, content))
         IN SetResult(Transact(Eng, "remote", [shared EXCEPT ![s] = r.sh], r.nid,
                               "none", FALSE, 0))
      /\ nEdits' = nEdits + 1
      /\ last' = Step("remoteInsert", s, k, Len(content))
      /\ prev' = Prev
      /\ txLog' = <<>>
      /\ emitted' = <<>>
      /\ UNCHANGED <<mapVars, subVars, manager, subscriptions, listens>>

RemoteDeleteOf(maxEdits) ==
  /\ nEdits < maxEdits
  /\ \E s \in EditSlots, k \in 0..(MaxEdits + MaxSelLen) * 2, count \in Counts :
      /\ <<s, s>> \in observers
      /\ ~SlotIsEmpty(VisChars(shared[s]))
      /\ k + count <= VisLen(shared[s])
      /\ LET r == ApplyActions([sh |-> shared[s], nid |-> nextId, offset |-> 0],
                               DeleteActions(k, count))
         IN SetResult(Transact(Eng, "remote", [shared EXCEPT ![s] = r.sh], r.nid,
                               "none", FALSE, 0))
      /\ nEdits' = nEdits + 1
      /\ last' = Step("remoteDelete", s, k, count)
      /\ prev' = Prev
      /\ txLog' = <<>>
      /\ emitted' = <<>>
      /\ UNCHANGED <<mapVars, subVars, manager, subscriptions, listens>>

RemoteInsert == RemoteInsertOf(RemoteStrings, MaxEdits)
RemoteDelete == RemoteDeleteOf(MaxEdits)

\* ------------------------------------------------------------------
\* The batching signal (scheduler.onDocChanged) and its subscriber.

\* r = [e, log]: the engine and the transactions when every subscriber has
\* run; the first finds the queue, the others find it empty, and each ends
\* with the notification.
SetFlushed(r) ==
  /\ SetEng(r.e)
  /\ txLog' = r.log
  /\ emitted' = [i \in 1..Len(r.log) |-> "transact"]
                \o [i \in 1..subscriptions |-> "onLocalChangesApplied"]

DocChanged ==
  \E elapsed \in BOOLEAN :
    /\ pending # {}
    /\ (elapsed = FALSE) => (capturing /\ undoStack # <<>> /\ queue # <<>>)
    /\ IF pending \ {"Remote"} = {} \/ subscriptions = 0
       THEN /\ SetEng([Eng EXCEPT !.pending = {}])
            /\ last' = Step("docChanged", 0, 0, 0)
            /\ prev' = NoPrev /\ txLog' = <<>> /\ midSel' = <<>>
            /\ emitted' = <<>>
       ELSE /\ SetFlushed(TransactUpdates([Eng EXCEPT !.pending = {}, !.queue = <<>>],
                                          <<>>, GroupUpdates(<<>>, queue), elapsed))
            /\ last' = Step("flush", 0, 0, 0)
            /\ prev' = Prev
            /\ midSel' = <<>>
    /\ UNCHANGED nEdits
    /\ UNCHANGED <<mapVars, subVars, manager, subscriptions, listens>>

\* ------------------------------------------------------------------
\* back() and forward().

CanBack == manager # "null" /\ undoStack # <<>>
CanForward == manager # "null" /\ redoStack # <<>>

\* A back() that does not test canBack.
BackUnguarded(can) ==
  /\ SetResult(Undo(Eng))
  /\ emitted' = <<"undo", "onBack">>

BackOn(can) ==
  IF can
  THEN /\ SetResult(Undo(Eng))
       /\ emitted' = <<"undo", "onBack">>
  ELSE /\ SetEng(Eng)
       /\ midSel' = selection
       /\ emitted' = <<>>

Back ==
  /\ BackOn(CanBack)
  /\ last' = Step("back", 0, 0, 0)
  /\ prev' = Prev
  /\ txLog' = <<>>
  /\ UNCHANGED nEdits
  /\ UNCHANGED <<mapVars, subVars, manager, subscriptions, listens>>

ForwardOn(can) ==
  IF can
  THEN /\ SetResult(Redo(Eng))
       /\ emitted' = <<"redo", "onForward">>
  ELSE /\ SetEng(Eng)
       /\ midSel' = selection
       /\ emitted' = <<>>

Forward ==
  /\ ForwardOn(CanForward)
  /\ last' = Step("forward", 0, 0, 0)
  /\ prev' = Prev
  /\ txLog' = <<>>
  /\ UNCHANGED nEdits
  /\ UNCHANGED <<mapVars, subVars, manager, subscriptions, listens>>

Next ==
  \/ LocalInsert
  \/ LocalDelete
  \/ RemoteInsert
  \/ RemoteDelete
  \/ DocChanged
  \/ Back
  \/ Forward

Spec == Init /\ [][Next]_vars

\* ------------------------------------------------------------------
\* The engine from its construction: listen(), clear() and destroy() among
\* the edits, events and signals.

\* What clear() makes of the cursor history.
ClearNoReset(h) == h

ClearHistory(h) ==
  IF h # <<>> /\ ~h[Len(h)].hole THEN <<h[Len(h)]>> ELSE <<>>

Clear ==
  /\ historyItems' = ClearHistory(historyItems)
  /\ index' = Len(ClearHistory(historyItems))
  /\ IF manager # "null"
     THEN undoStack' = <<>> /\ redoStack' = <<>>
     ELSE UNCHANGED <<undoStack, redoStack>>
  /\ emitted' = <<"onChange">>
  /\ thrown' = FALSE
  /\ last' = Step("clear", 0, 0, 0)
  /\ prev' = Prev /\ txLog' = <<>> /\ midSel' = <<>>
  /\ UNCHANGED <<local, shared, nextId, queue, updateFromRemote, pending, selection,
                 beforePosition, capturing, nEdits, mapVars, subVars, manager, subscriptions,
                 oldManagers, listens>>

Destroy ==
  /\ index' = 0
  /\ historyItems' = <<>>
  /\ subscriptions' = 0
  /\ manager' = IF manager = "null" THEN "null" ELSE "destroyed"
  /\ emitted' = <<>>
  /\ thrown' = FALSE
  /\ last' = Step("destroy", 0, 0, 0)
  /\ prev' = Prev /\ txLog' = <<>> /\ midSel' = <<>>
  /\ UNCHANGED <<local, shared, nextId, queue, updateFromRemote, pending, selection,
                 beforePosition, undoStack, redoStack, capturing, nEdits, mapVars, subVars,
                 oldManagers, listens>>

\* createLocalSlotBySharedSlot: the slot made of a shared text, or the error
\* of a component in it.
CreateLocalSlotBySharedSlot(sh) ==
  [thrown |-> \E i \in 1..Len(sh) : ~sh[i].del /\ InsertThrows(<<sh[i].ch>>),
   slot |-> VisChars(sh)]

\* syncSharedMapToLocalMap on the root's state: the slots are made in order,
\* up to the first that throws; a slot not made is <<>>.
Built(sh, s) ==
  \A t \in Slots : t <= s => ~CreateLocalSlotBySharedSlot(sh[t]).thrown

\* listen(): a new undo manager with its handlers, one more set of
\* subscriptions, and syncRootComponent, which makes the shared document of
\* the local one when the shared root has no state, and the local document of
\* the shared one when it has; the slots it makes then stand where the ones
\* they replace stood. A manager replaced while live stays on the document.
Listen ==
  /\ listens < MaxListens
  /\ listens' = listens + 1
  /\ manager' = "live"
  /\ oldManagers' = IF manager = "live"
                    THEN Append(oldManagers, [undoStack |-> undoStack,
                                              redoStack |-> redoStack,
                                              capturing |-> capturing])
                    ELSE oldManagers
  /\ undoStack' = <<>> /\ redoStack' = <<>> /\ capturing' = FALSE
  /\ subscriptions' = subscriptions + 1
  /\ IF shared = [s \in Slots |-> <<>>]
     THEN /\ shared' = [s \in Slots |-> SharedOf(s, local[s])]
          /\ slotAndYTextMap' = [s \in Slots |-> s]
          /\ yTextAndSLotMap' = [t \in Texts |-> IF t \in Slots THEN t ELSE 0]
          /\ observers' = {<<s, s>> : s \in Slots}
          /\ nextText' = Cardinality(Slots) + 1
          /\ thrown' = FALSE
          /\ UNCHANGED local
     ELSE /\ local' = [s \in Slots |->
                         IF Built(shared, s)
                         THEN CreateLocalSlotBySharedSlot(shared[s]).slot ELSE <<>>]
          /\ slotAndYTextMap' = [s \in Slots |->
                                   IF Built(shared, s) THEN s ELSE slotAndYTextMap[s]]
          /\ yTextAndSLotMap' = [t \in Texts |->
                                   IF t \in Slots /\ Built(shared, t)
                                   THEN t ELSE yTextAndSLotMap[t]]
          /\ observers' = observers \cup {<<s, s>> : s \in {t \in Slots : Built(shared, t)}}
          /\ nextText' = Max(nextText, Cardinality(Slots) + 1)
          /\ thrown' = ~Built(shared, Cardinality(Slots))
          /\ UNCHANGED shared
  /\ emitted' = <<>>
  /\ last' = Step("listen", 0, 0, 0)
  /\ prev' = Prev /\ txLog' = <<>> /\ midSel' = <<>>
  /\ UNCHANGED <<nextId, queue, updateFromRemote, pending, selection, beforePosition,
                 historyItems, index, nEdits, subVars>>

InitLife ==
  /\ InitEngine
  /\ InitNoSubtree
  /\ local = [s \in Slots |-> <<NL>>]
  /\ shared = [s \in Slots |-> <<>>]
  /\ selection = <<>>
  /\ queue = <<>>
  /\ pending = {}
  /\ slotAndYTextMap = [s \in Slots |-> 0]
  /\ yTextAndSLotMap = [t \in Texts |-> 0]
  /\ observers = {}
  /\ nextText = 1
  /\ manager = "null"
  /\ subscriptions = 0
  /\ oldManagers = <<>>
  /\ listens = 0
  /\ emitted = <<>>

LifeLocalInsert == LocalInsertOf(MaxLifeEdits)
LifeRemoteInsert == RemoteInsertOf(RemoteStrings, MaxLifeEdits)

NextLife ==
  \/ Listen
  \/ Clear
  \/ Destroy
  \/ LifeLocalInsert
  \/ LifeRemoteInsert
  \/ DocChanged
  \/ Back
  \/ Forward

SpecLife == InitLife /\ [][NextLife]_vars

\* ------------------------------------------------------------------
\* The replay of one remote event into a document with a selection: the
\* document and the selection are drawn, then events are replayed.

SelContents == {<<NL>>} \cup UNION {[1..n -> {1}] : n \in 1..MaxSelLen}

SelectionsOf(loc) ==
  LET pos == {p \in Slots \X (0..MaxSelLen) : p[2] = SlotRetain(loc[p[1]], p[2])}
  IN {<<>>} \cup {<<a[1], a[2], f[1], f[2]>> : a \in pos, f \in pos}

InitSel ==
  /\ InitEngine
  /\ InitNoSubtree
  /\ InitListened
  /\ InitBridged
  /\ \E c \in SelContents :
       /\ local = [s \in Slots |-> IF s \in EditSlots THEN c ELSE <<NL>>]
       /\ shared = [s \in Slots |-> SharedOf(s, IF s \in EditSlots THEN c ELSE <<NL>>)]
  /\ selection \in SelectionsOf(local)
  /\ queue = <<>>
  /\ pending = {}

SelRemoteInsert == RemoteInsertOf(SelStrings, MaxSelEdits)
SelRemoteDelete == RemoteDeleteOf(MaxSelEdits)

NextSel ==
  \/ SelRemoteInsert
  \/ SelRemoteDelete
  \/ DocChanged

SpecSel == InitSel /\ [][NextSel]_vars

\* ------------------------------------------------------------------
\* The flush of a queue of any record flags: the queue is drawn, its functions
\* change nothing, and the batching signal flushes it.

GroupQueues ==
  UNION {{[i \in 1..n |-> [record |-> r[i], slot |-> 1, n |-> i, actions |-> <<>>]] :
            r \in [1..n -> BOOLEAN]} : n \in 0..MaxGroupLen}

InitGroup ==
  /\ InitEngine
  /\ InitNoSubtree
  /\ InitListened
  /\ InitBridged
  /\ local = [s \in Slots |-> <<NL>>]
  /\ shared = [s \in Slots |-> SharedOf(s, <<NL>>)]
  /\ selection = <<>>
  /\ queue \in GroupQueues
  /\ pending = {"Local"}

NextGroup == DocChanged

SpecGroup == InitGroup /\ [][NextGroup]_vars

\* ------------------------------------------------------------------
\* The flush of a queue of inserts of any record flags, among remote events:
\* the queue is drawn with the slot its inserts have made.

RecordQueues ==
  UNION {{[i \in 1..n |-> [record |-> r[i], slot |-> 1, n |-> i,
                           actions |-> InsertActions(0, <<1>>)]] :
            r \in [1..n -> BOOLEAN]} : n \in 1..MaxRecordLen}

InitRecord ==
  /\ InitEngine
  /\ InitNoSubtree
  /\ InitListened
  /\ InitBridged
  /\ queue \in RecordQueues
  /\ local = [s \in Slots |-> IF s = 1 THEN [i \in 1..Len(queue) |-> 1] ELSE <<NL>>]
  /\ shared = [s \in Slots |-> SharedOf(s, <<NL>>)]
  /\ selection = <<>>
  /\ pending = {"Local"}

RecordRemoteInsert == RemoteInsertOf(RemoteStrings, MaxRecordEdits)
RecordRemoteDelete == RemoteDeleteOf(MaxRecordEdits)

NextRecord ==
  \/ DocChanged
  \/ RecordRemoteInsert
  \/ RecordRemoteDelete

SpecRecord == InitRecord /\ [][NextRecord]_vars

\* ------------------------------------------------------------------
\* The bridging and the teardown of slots, from the empty tables of the
\* constructor; the engine's other state stays as constructed.

engineVars == <<local, shared, nextId, queue, updateFromRemote, pending, selection,
                beforePosition, historyItems, index, undoStack, redoStack, capturing,
                nEdits, prev, txLog, midSel, thrown>>

\* createSharedSlotByLocalSlot(localSlot): a new text, then syncSlot, which
\* observes the text, subscribes to the slot, sets the tables and registers
\* the destroy callback.
CreateSharedSlotByLocalSlot ==
  \E s \in Slots :
    /\ nextText <= MaxTexts
    /\ LET m == SlotMapSet(SlotMap, s, nextText)
       IN /\ slotAndYTextMap' = m.s2t
          /\ yTextAndSLotMap' = m.t2s
    /\ observers' = observers \cup {<<nextText, s>>}
    /\ nextText' = nextText + 1
    /\ last' = Step("bridge", s, 0, nextText)
    /\ UNCHANGED <<engineVars, lifeVars, subVars>>

\* The destroy callbacks of a slot, one for every syncSlot of it.
RECURSIVE DestroyCallbacks(_, _, _)
DestroyCallbacks(m, slot, n) ==
  IF n = 0 THEN m ELSE DestroyCallbacks(SlotMapDelete(m, slot), slot, n - 1)

SlotDestroy ==
  \E s \in Slots :
    /\ \E t \in Texts : <<t, s>> \in observers
    /\ LET m == DestroyCallbacks(SlotMap, s,
                                 Cardinality({t \in Texts : <<t, s>> \in observers}))
       IN /\ slotAndYTextMap' = m.s2t
          /\ yTextAndSLotMap' = m.t2s
    /\ observers' = {o \in observers : o[2] # s}
    /\ last' = Step("slotDestroy", s, 0, 0)
    /\ UNCHANGED <<engineVars, nextText, lifeVars, subVars>>

InitMap ==
  /\ InitEngine
  /\ InitNoSubtree
  /\ manager = "null"
  /\ subscriptions = 0
  /\ oldManagers = <<>>
  /\ listens = 0
  /\ emitted = <<>>
  /\ local = [s \in Slots |-> <<NL>>]
  /\ shared = [s \in Slots |-> SharedOf(s, <<NL>>)]
  /\ selection = <<>>
  /\ queue = <<>>
  /\ pending = {}
  /\ slotAndYTextMap = [s \in Slots |-> 0]
  /\ yTextAndSLotMap = [t \in Texts |-> 0]
  /\ observers = {}
  /\ nextText = 1

NextMap ==
  \/ CreateSharedSlotByLocalSlot
  \/ SlotDestroy

SpecMap == InitMap /\ [][NextMap]_vars

\* ------------------------------------------------------------------
\* The cursor translator among edits, undo and redo, the teardown of slots
\* and the document's garbage collection: the document and the selection,
\* which may have one endpoint only, are drawn.

CursorContents == {<<NL>>, <<1>>}

CursorSelectionsOf(loc) ==
  LET pos == UNION {{<<s, off>> : off \in {SlotRetain(loc[s], k) : k \in 0..Len(loc[s])}} :
                      s \in Slots}
  IN {<<>>} \cup {<<a[1], a[2], f[1], f[2]>> : a \in pos, f \in pos}
            \cup {<<a[1], a[2], 0, 0>> : a \in pos}
            \cup {<<0, 0, f[1], f[2]>> : f \in pos}

InitCursor ==
  /\ InitEngine
  /\ InitNoSubtree
  /\ InitListened
  /\ InitBridged
  /\ \E c \in CursorContents :
       /\ local = [s \in Slots |-> IF s \in EditSlots THEN c ELSE <<NL>>]
       /\ shared = [s \in Slots |-> SharedOf(s, IF s \in EditSlots THEN c ELSE <<NL>>)]
  /\ selection \in CursorSelectionsOf(local)
  /\ queue = <<>>
  /\ pending = {}

\* The document collects the text of a slot that was torn down with its
\* component: its items are gone, and no position in it resolves any more.
Collect ==
  \E s \in Slots :
    /\ slotAndYTextMap[s] = 0 /\ yTextAndSLotMap[s] = 0
    /\ shared[s] # <<>>
    /\ \A i \in 1..Len(queue) : queue[i].slot # s
    /\ shared' = [shared EXCEPT ![s] = <<>>]
    /\ last' = Step("collect", s, 0, 0)
    /\ thrown' = FALSE
    /\ prev' = Prev /\ txLog' = <<>> /\ midSel' = <<>>
    /\ emitted' = <<>>
    /\ UNCHANGED <<local, nextId, queue, updateFromRemote, pending, selection,
                   beforePosition, historyItems, index, undoStack, redoStack, capturing,
                   nEdits, mapVars, subVars, manager, subscriptions, oldManagers, listens>>

CursorLocalInsert == LocalInsertOf(MaxCursorEdits)

NextCursor ==
  \/ CursorLocalInsert
  \/ DocChanged
  \/ Back
  \/ Forward
  \/ SlotDestroy
  \/ Collect

SpecCursor == InitCursor /\ [][NextCursor]_vars

\* ------------------------------------------------------------------
\* The engine on a shared document with embedded components: the document is
\* drawn as another participant left it, listen() loads it, and remote
\* inserts of text and of components follow, among local inserts.

LoadContents == {<<NL>>, <<3>>, <<4>>, <<1, 4>>}
LoadStrings == {<<2>>, <<3>>, <<4>>, <<2, 4>>}

InitLoad ==
  /\ InitEngine
  /\ InitNoSubtree
  /\ local = [s \in Slots |-> <<NL>>]
  /\ \E c \in [Slots -> LoadContents] :
       /\ \A s \in Slots \ EditSlots : Len(c[s]) = 1
       /\ shared = [s \in Slots |-> SharedOf(s, c[s])]
  /\ selection = <<>>
  /\ queue = <<>>
  /\ pending = {}
  /\ slotAndYTextMap = [s \in Slots |-> 0]
  /\ yTextAndSLotMap = [t \in Texts |-> 0]
  /\ observers = {}
  /\ nextText = 1
  /\ manager = "null"
  /\ subscriptions = 0
  /\ oldManagers = <<>>
  /\ listens = 0
  /\ emitted = <<>>

LoadRemoteInsert == RemoteInsertOf(LoadStrings, MaxLoadEdits)
LoadLocalInsert == LocalInsertOf(MaxLoadEdits)

NextLoad ==
  \/ Listen
  \/ LoadRemoteInsert
  \/ LoadLocalInsert
  \/ DocChanged

SpecLoad == InitLoad /\ [][NextLoad]_vars

\* ------------------------------------------------------------------
\* The conversion of a subtree between its local and its shared form, with
\* formats, slot attributes, the schema and the state of components.
\*
\* A local slot is [schema, attributes, content]; a unit of its content is
\* [ch, formats, state], where formats is a set of <<formatter, value>>, a
\* formatter is [name |-> ..], and state holds the values of a component's
\* state map in key order (<<>> for text). A value of a state map is
\* [scalar, slot]: a slot in <<..>>, or an opaque scalar with slot = <<>>.
\* A shared text is [schema, attributes, items] with items [ch, attributes,
\* state], attributes a set of <<name, value>>; schema <<>> is the text
\* without the attribute `__schema__`.

MaxSubtreeLen == 2

\* registry.getFormatter(key), registry.getAttribute(key): the registry has the
\* formatters "bold" and "italic" and the attribute "align"; <<>> is null.
GetFormatter(key) == IF key \in {"bold", "italic"} THEN <<[name |-> key]>> ELSE <<>>
GetAttribute(key) == IF key \in {"align"} THEN <<[name |-> key]>> ELSE <<>>

\* A decoding that keeps no format.
RemoteFormatsToLocalNone(attrs) == {}

\* remoteFormatsToLocal: the formats of the attributes the registry has a
\* formatter for; the others are left out.
RemoteFormatsToLocal(attrs) ==
  {<<GetFormatter(a[1])[1], a[2]>> : a \in {b \in attrs : GetFormatter(b[1]) # <<>>}}

\* Slot.insert's test of the content's type against the schema.
InSchema(schema, ch) ==
  \E i \in 1..Len(schema) :
    schema[i] = IF ch \in Components THEN "InlineComponent" ELSE "Text"

\* new Slot(schema): the placeholder, no attribute.
NewSlot(schema) ==
  [schema |-> schema, attributes |-> {},
   content |-> <<[ch |-> NL, formats |-> {}, state |-> <<>>]>>]

SubSlotIsEmpty(slot) == Len(slot.content) = 1 /\ slot.content[1].ch = NL

\* Slot.insert(content, formats) at the index idx, content given as units
\* [ch, state]: refused when the schema has not the content's type; the
\* units take the formats given.
SubSlotInsert(slot, idx, units, formats) ==
  LET new == [i \in 1..Len(units) |->
                [ch |-> units[i].ch, formats |-> formats, state |-> units[i].state]]
  IN IF ~InSchema(slot.schema, units[1].ch) THEN slot
     ELSE IF SubSlotIsEmpty(slot) THEN [slot EXCEPT !.content = new]
     ELSE [slot EXCEPT !.content = SubSeq(@, 1, idx) \o new \o SubSeq(@, idx + 1, Len(@))]

\* A unit put before the runs of what follows it: a character joins the run
\* of characters with its formats, anything else starts a run. A run is
\* [insert, formats], insert the units [ch, state] of a string or one
\* component.
JoinRun(unit, formats, rest) ==
  IF /\ unit.ch \notin Components
     /\ rest # <<>>
     /\ rest[1].insert[1].ch \notin Components
     /\ rest[1].formats = formats
  THEN <<[rest[1] EXCEPT !.insert = <<unit>> \o @]>> \o Tail(rest)
  ELSE <<[insert |-> <<unit>>, formats |-> formats]>> \o rest

\* Slot.toDelta(): the runs of the content, a string of the characters that
\* follow each other with the same formats, or one component.
RECURSIVE SlotToDelta(_)
SlotToDelta(content) ==
  IF content = <<>> THEN <<>>
  ELSE LET u == Head(content)
           unit == [ch |-> u.ch, state |-> u.state]
       IN JoinRun(unit, u.formats, SlotToDelta(Tail(content)))

\* The cursor index after Slot.insert(content, formats) at the index idx.
SubSlotInsertIndex(slot, idx, units) ==
  IF ~InSchema(slot.schema, units[1].ch) THEN idx
  ELSE IF SubSlotIsEmpty(slot) THEN Len(units)
  ELSE idx + Len(units)

\* YText.insert(offset, text, attributes) and insertEmbed(offset, embed,
\* attributes) with an attributes object: the items take exactly these.
YTextInsert(items, offset, units, attributes) ==
  LET new == [i \in 1..Len(units) |->
                [ch |-> units[i].ch, attributes |-> attributes, state |-> units[i].state]]
  IN SubSeq(items, 1, offset) \o new \o SubSeq(items, offset + 1, Len(items))

\* YText.toDelta(): the runs of the text.
RECURSIVE YTextToDelta(_)
YTextToDelta(items) ==
  IF items = <<>> THEN <<>>
  ELSE LET u == Head(items)
           unit == [ch |-> u.ch, state |-> u.state]
       IN JoinRun(unit, u.attributes, YTextToDelta(Tail(items)))

\* createSharedModelByLocalModel: a slot becomes a shared text, a scalar is
\* returned as it is.
RECURSIVE CreateSharedSlotWithFormats(_)
CreateSharedModelByLocalModel(v) ==
  IF v.slot # <<>>
  THEN [scalar |-> v.scalar, text |-> <<CreateSharedSlotWithFormats(v.slot[1])>>]
  ELSE [scalar |-> v.scalar, text |-> <<>>]

\* createSharedMapByLocalMap: each value of the map by its variant.
CreateSharedMapByLocalMap(state) ==
  [k \in 1..Len(state) |-> CreateSharedModelByLocalModel(state[k])]

\* createSharedComponentByLocalComponent: the name and the converted state.
CreateSharedComponentByLocalComponent(component) ==
  [ch |-> component.ch, state |-> CreateSharedMapByLocalMap(component.state)]

\* The loop over localSlot.toDelta(): each run is inserted at the offset
\* after the runs before it, its formats keyed by the formatter's name.
\* toDelta gives every run its list of formats, an empty one for none.
RECURSIVE SharedInsertRuns(_, _, _)
SharedInsertRuns(items, offset, delta) ==
  IF delta = <<>> THEN items
  ELSE LET i == Head(delta)
           formats == {<<f[1].name, f[2]>> : f \in i.formats}
           units == IF i.insert[1].ch \in Components
                    THEN <<CreateSharedComponentByLocalComponent(i.insert[1])>>
                    ELSE i.insert
       IN SharedInsertRuns(YTextInsert(items, offset, units, formats),
                           offset + Len(i.insert), Tail(delta))

\* createSharedSlotByLocalSlot: the schema under `__schema__`, the runs, and
\* the slot's attributes by name.
CreateSharedSlotWithFormats(localSlot) ==
  [schema |-> localSlot.schema,
   attributes |-> {<<a[1].name, a[2]>> : a \in localSlot.attributes},
   items |-> SharedInsertRuns(<<>>, 0, SlotToDelta(localSlot.content))]

\* createLocalModelBySharedByModel: a shared text becomes a slot, a scalar is
\* returned as it is.
RECURSIVE CreateLocalSlotWithFormats(_)
CreateLocalModelBySharedByModel(v) ==
  IF v.text # <<>>
  THEN [scalar |-> v.scalar, slot |-> <<CreateLocalSlotWithFormats(v.text[1])>>]
  ELSE [scalar |-> v.scalar, slot |-> <<>>]

\* createLocalMapBySharedMap: each value of the shared map by its variant.
CreateLocalMapBySharedMap(state) ==
  [k \in 1..Len(state) |-> CreateLocalModelBySharedByModel(state[k])]

\* createLocalComponentBySharedComponent with the state: the registry's
\* instance for the name, its state made of the shared state.
CreateLocalComponentWithState(component) ==
  [ch |-> CreateLocalComponentBySharedComponent(component.ch).instance,
   state |-> CreateLocalMapBySharedMap(component.state)]

\* The loop over sharedSlot.toDelta(): a string and a component are both
\* inserted with the formats of the run's attributes.
RECURSIVE LocalInsertRuns(_, _, _)
LocalInsertRuns(slot, idx, delta) ==
  IF delta = <<>> THEN slot
  ELSE LET action == Head(delta)
           formats == RemoteFormatsToLocal(action.formats)
           units == IF action.insert[1].ch \in Components
                    THEN <<CreateLocalComponentWithState(action.insert[1])>>
                    ELSE action.insert
       IN LocalInsertRuns(SubSlotInsert(slot, idx, units, formats),
                          SubSlotInsertIndex(slot, idx, units), Tail(delta))

\* The attributes of the text the registry has: the others, `__schema__`
\* among them, are left out.
LocalAttributesOf(attrs) ==
  {<<GetAttribute(a[1])[1], a[2]>> : a \in {b \in attrs : GetAttribute(b[1]) # <<>>}}

\* createLocalSlotBySharedSlot, with formats: a slot of the text's schema
\* (of none when the text has no `__schema__`), the registered attributes,
\* and the runs of the text.
CreateLocalSlotWithFormats(sharedSlot) ==
  LocalInsertRuns([NewSlot(sharedSlot.schema) EXCEPT
                     !.attributes = LocalAttributesOf(sharedSlot.attributes)],
                  0, YTextToDelta(sharedSlot.items))

\* syncRemote's callback on an event that inserts at an offset: retain(0),
\* the retain of the delta, then the insert, a string with the formats of
\* its attributes, a component with no formats.
SyncRemoteInsertWithFormats(localSlot, offset, units, attributes) ==
  LET idx == IF SubSlotIsEmpty(localSlot) THEN 0
               ELSE Max(0, Min(offset, Len(localSlot.content)))
  IN IF units[1].ch \in Components
     THEN SubSlotInsert(localSlot, idx, <<CreateLocalComponentWithState(units[1])>>, {})
     ELSE SubSlotInsert(localSlot, idx, units, RemoteFormatsToLocal(attributes))

\* The subtrees drawn: characters and registered components under formats
\* of registered and unregistered formatters, a component's state an opaque
\* scalar or a scalar and a nested slot.
SubSlots ==
  LET formatSets == {{}, {<<[name |-> "bold"], 1>>},
                     {<<[name |-> "bold"], 1>>, <<[name |-> "italic"], 2>>},
                     {<<[name |-> "x"], 1>>}}
      attributeSets == {{}, {<<[name |-> "align"], 1>>}, {<<[name |-> "y"], 1>>}}
      schemas == {<<"Text">>, <<"Text", "InlineComponent">>}
      nested == [schema |-> <<"Text">>, attributes |-> {<<[name |-> "align"], 2>>},
                 content |-> <<[ch |-> 1, formats |-> {<<[name |-> "bold"], 1>>},
                                state |-> <<>>]>>]
      states == {<<[scalar |-> 7, slot |-> <<>>]>>,
                 <<[scalar |-> 7, slot |-> <<>>], [scalar |-> 0, slot |-> <<nested>>]>>}
      units == {[ch |-> 1, formats |-> f, state |-> <<>>] : f \in formatSets}
                 \cup {[ch |-> n, formats |-> f, state |-> st] :
                         n \in Registry, f \in formatSets, st \in states}
      contents == {NewSlot(<<>>).content}
                    \cup UNION {[1..n -> units] : n \in 1..MaxSubtreeLen}
  IN UNION {{[schema |-> sc, attributes |-> a, content |-> c] :
               a \in attributeSets,
               c \in {cc \in contents : \A i \in 1..Len(cc) : InSchema(sc, cc[i].ch)}} :
            sc \in schemas}

\* What a remote peer inserts: a character or a registered component with an
\* opaque state, under attributes the registry has a formatter for or not.
RemoteUnits ==
  {<<[ch |-> 2, state |-> <<>>]>>}
    \cup {<<[ch |-> n, state |-> <<[scalar |-> 7, text |-> <<>>]>>]>> : n \in Registry}

RemoteAttributeSets == {{}, {<<"bold", 1>>}, {<<"x", 1>>}}

\* A local slot drawn, before any conversion.
InitSubtree ==
  /\ InitEngine
  /\ InitListened
  /\ InitBridged
  /\ local = [s \in Slots |-> <<NL>>]
  /\ shared = [s \in Slots |-> SharedOf(s, <<NL>>)]
  /\ selection = <<>>
  /\ queue = <<>>
  /\ pending = {}
  /\ \E slot \in SubSlots :
       /\ subLocal = <<slot>>
       /\ subDrawn = <<slot>>
  /\ subShared = <<>>
  /\ subLast = [kind |-> "drawn", component |-> FALSE, formatted |-> FALSE]

\* createSharedSlotByLocalSlot on the slot drawn.
SubCreateShared ==
  /\ subLast.kind = "drawn"
  /\ subShared' = <<CreateSharedSlotWithFormats(subLocal[1])>>
  /\ subLast' = [subLast EXCEPT !.kind = "toShared"]
  /\ UNCHANGED <<subLocal, subDrawn, engineVars, last, mapVars, lifeVars>>

\* createLocalSlotBySharedSlot on the shared text made.
SubCreateLocal ==
  /\ subLast.kind = "toShared"
  /\ subLocal' = <<CreateLocalSlotWithFormats(subShared[1])>>
  /\ subLast' = [subLast EXCEPT !.kind = "toLocal"]
  /\ UNCHANGED <<subShared, subDrawn, engineVars, last, mapVars, lifeVars>>

\* A remote transaction that inserts into the shared text just made into
\* the slot, and syncRemote's replay of its event into the slot.
SubRemoteInsert ==
  /\ subLast.kind = "toLocal"
  /\ ~SubSlotIsEmpty(subLocal[1])
  /\ \E offset \in 0..Len(subShared[1].items), units \in RemoteUnits,
        attributes \in RemoteAttributeSets :
       /\ subShared' = <<[subShared[1] EXCEPT
                            !.items = YTextInsert(@, offset, units, attributes)]>>
       /\ subLocal' = <<SyncRemoteInsertWithFormats(subLocal[1], offset, units, attributes)>>
       /\ subLast' = [kind |-> "remoteInsert",
                      component |-> units[1].ch \in Components,
                      formatted |-> RemoteFormatsToLocal(attributes) # {}]
  /\ UNCHANGED <<subDrawn, engineVars, last, mapVars, lifeVars>>

NextSubtree ==
  \/ SubCreateShared
  \/ SubCreateLocal
  \/ SubRemoteInsert

SpecSubtree == InitSubtree /\ [][NextSubtree]_vars

\* ------------------------------------------------------------------
\* Properties.

Records(q) == [i \in 1..Len(q) |-> q[i].record]
Numbers(q) == [i \in 1..Len(q) |-> q[i].n]
Runs(q) == Cardinality({i \in 1..Len(q) : i = 1 \/ q[i].record # q[i - 1].record})

RECURSIVE Flatten(_)
Flatten(log) == IF log = <<>> THEN <<>> ELSE Head(log).items \o Flatten(Tail(log))

WasReplay == last.kind \in {"remoteInsert", "remoteDelete", "back", "forward"}

\* C1: a flush makes one transaction per maximal run of equal record values of
\* the queue, each of one origin and adjacent ones of different origins; the
\* queue tagged [T,T,F,T] flushes as the three transactions [1,2], [3], [4].
C1_GroupsAreRuns ==
  last.kind = "flush" =>
    /\ Len(txLog) = Runs(prev.queue)
    /\ \A i \in 1..Len(txLog) :
         /\ txLog[i].items # <<>>
         /\ \A j \in 1..Len(txLog[i].items) :
              prev.queue[txLog[i].items[j]].record = (txLog[i].origin = "yDoc")
         /\ i > 1 => txLog[i].origin # txLog[i - 1].origin
    /\ Records(prev.queue) = <<TRUE, TRUE, FALSE, TRUE>> =>
         [i \in 1..Len(txLog) |-> txLog[i].items] = <<<<1, 2>>, <<3>>, <<4>>>>

C1_Witness ==
  /\ last.kind = "flush"
  /\ Records(prev.queue) = <<TRUE, TRUE, FALSE, TRUE>>
  /\ Len(txLog) = 3

\* C2: a flush runs every pending action once, in the order queued, and leaves
\* the queue empty.
C2_FlushRunsQueueInOrder ==
  last.kind = "flush" => Flatten(txLog) = Numbers(prev.queue) /\ queue = <<>>

C2_Witness ==
  /\ last.kind = "flush"
  /\ Len(prev.queue) >= 2
  /\ \E s \in Slots : shared[s] # SharedOf(s, <<NL>>)

\* C3: the event of a transaction the flush made with the local origin is not
\* replayed: the local slots, the selection and the mode are as before it, and
\* no replay is batched.
C3_EchoIgnored ==
  (last.kind = "flush" /\ \A i \in 1..Len(txLog) : txLog[i].origin = "yDoc") =>
    /\ local = prev.local
    /\ selection = prev.selection
    /\ ~updateFromRemote
    /\ pending = {}

C3_Witness ==
  /\ last.kind = "flush"
  /\ txLog # <<>>
  /\ \A i \in 1..Len(txLog) : txLog[i].origin = "yDoc"
  /\ undoStack # <<>>
  /\ local[1] # <<NL>>

\* C5 as stated: a replay that changed the local slot has put what it did in
\* the queue, record = false.
C5_ReplayQueuedUnrecorded ==
  (WasReplay /\ local # prev.local) =>
    /\ Len(queue) > Len(prev.queue)
    /\ \A i \in (Len(prev.queue) + 1)..Len(queue) : queue[i].record = FALSE

\* C5 as amended: a replay puts nothing in the queue, and every item of the
\* queue has record = true.
C5_ReplayQueuesNothing ==
  /\ \A i \in 1..Len(queue) : queue[i].record = TRUE
  /\ WasReplay => queue = prev.queue

C5_Witness ==
  /\ WasReplay
  /\ local # prev.local
  /\ queue # <<>>
  /\ queue = prev.queue

\* C4: whenever the queue is empty and the engine is idle, every local slot
\* has the content of its shared text, whatever the interleaving of local
\* edits, batching signals and remote events was.
C4_Converged ==
  (queue = <<>> /\ ~updateFromRemote) =>
    \A s \in Slots : local[s] = VisChars(shared[s])

\* The entry of the cursor history made for the edit tagged n, if it is there.
EntriesOf(n) == {i \in 1..Len(historyItems) : ~historyItems[i].hole /\ historyItems[i].n = n}

\* C6: once more than stackSize undoable edits stand recorded (none undone),
\* the undo stack and the cursor history both hold stackSize entries, and the
\* i-th cursor entry is the one made with the i-th stack item.
C6_BoundedLockstep ==
  (last.kind = "flush" /\ index > stackSize /\ redoStack = <<>>) =>
    /\ Len(undoStack) = stackSize
    /\ Len(historyItems) = stackSize
    /\ \A i \in 1..Len(historyItems) :
         /\ ~historyItems[i].hole
         /\ i <= Len(undoStack) => historyItems[i].n = undoStack[i].n

\* C7: undoing the edit E leaves what E inserted deleted and what E deleted
\* live, and the selection at E's before-snapshot; redoing E leaves what E
\* inserted live, and the selection at E's after-snapshot; both whenever the
\* snapshot is there and resolves.
C7_UndoRedoSymmetry ==
  /\ (last.kind = "back" /\ redoStack # <<>> /\ local # prev.local) =>
       LET E == redoStack[Len(redoStack)]
       IN /\ E.ins \subseteq LiveIds(shared)
          /\ E.dels \subseteq DeadIds(shared)
          /\ \A i \in EntriesOf(E.n) :
               LET S0 == historyItems[i].before
               IN (S0 # <<>> /\ GetAbstractSelection(S0, shared) # <<>>) =>
                    selection = SetBaseAndExtent(GetAbstractSelection(S0, shared), local)
  /\ (last.kind = "forward" /\ undoStack # <<>> /\ local # prev.local) =>
       LET E == undoStack[Len(undoStack)]
       IN /\ E.ins \subseteq LiveIds(shared)
          /\ E.dels \subseteq DeadIds(shared)
          /\ \A i \in EntriesOf(E.n) :
               LET S1 == historyItems[i].after
               IN (S1 # <<>> /\ GetAbstractSelection(S1, shared) # <<>>) =>
                    selection = SetBaseAndExtent(GetAbstractSelection(S1, shared), local)

\* The endpoints of a selection: <<slot, offset>> of the anchor and the focus.
Anchor(sel) == <<sel[1], sel[2]>>
Focus(sel) == <<sel[3], sel[4]>>

\* C8 as stated: a remote insert of last.n units at offset last.off of a slot
\* with content moves every endpoint of the slot at an offset >= last.off
\* forward by last.n.
C8_ShiftAtOrAfter ==
  (/\ last.kind = "remoteInsert"
   /\ IsSelected(prev.selection)
   /\ ~SlotIsEmpty(prev.local[last.slot])) =>
    /\ (Anchor(prev.selection)[1] = last.slot /\ Anchor(prev.selection)[2] >= last.off) =>
         Anchor(selection) = <<last.slot, Anchor(prev.selection)[2] + last.n>>
    /\ (Focus(prev.selection)[1] = last.slot /\ Focus(prev.selection)[2] >= last.off) =>
         Focus(selection) = <<last.slot, Focus(prev.selection)[2] + last.n>>

\* C8 as amended: a remote insert of last.n units at offset last.off moves
\* every endpoint of the slot at an offset > last.off forward by last.n, and
\* leaves every other endpoint where it was.
C8_ShiftAfter ==
  (last.kind = "remoteInsert" /\ IsSelected(prev.selection)) =>
    /\ IsSelected(selection)
    /\ Anchor(selection) =
         IF Anchor(prev.selection)[1] = last.slot /\ Anchor(prev.selection)[2] > last.off
         THEN <<last.slot, Anchor(prev.selection)[2] + last.n>>
         ELSE Anchor(prev.selection)
    /\ Focus(selection) =
         IF Focus(prev.selection)[1] = last.slot /\ Focus(prev.selection)[2] > last.off
         THEN <<last.slot, Focus(prev.selection)[2] + last.n>>
         ELSE Focus(prev.selection)

C8_Witness ==
  /\ last = Step("remoteInsert", 1, 2, 3)
  /\ IsSelected(prev.selection)
  /\ Anchor(prev.selection) = <<1, 5>>
  /\ Anchor(selection) = <<1, 8>>
  /\ Focus(prev.selection) = <<1, 2>>
  /\ Focus(selection) = <<1, 2>>

\* C9: a remote delete of last.n units at offset last.off, which leaves the
\* slot some content, moves every endpoint of the slot at an offset
\* p >= last.off to max(last.off, p - last.n).
C9_ShiftClamped ==
  (/\ last.kind = "remoteDelete"
   /\ IsSelected(prev.selection)
   /\ last.n < Len(prev.local[last.slot])) =>
    /\ IsSelected(selection)
    /\ (Anchor(prev.selection)[1] = last.slot /\ Anchor(prev.selection)[2] >= last.off) =>
         Anchor(selection) = <<last.slot, Max(last.off, Anchor(prev.selection)[2] - last.n)>>
    /\ (Focus(prev.selection)[1] = last.slot /\ Focus(prev.selection)[2] >= last.off) =>
         Focus(selection) = <<last.slot, Max(last.off, Focus(prev.selection)[2] - last.n)>>

\* C10: the replay of an undo's or a redo's event leaves the selection as it
\* was; only the restore of the snapshot, when the stack item is popped, moves
\* it.
C10_HistoryReplayKeepsSelection ==
  last.kind \in {"back", "forward"} => midSel = prev.selection

C10_Witness ==
  /\ last.kind = "back"
  /\ IsSelected(prev.selection)
  /\ local # prev.local
  /\ midSel = prev.selection
  /\ selection # midSel

\* The id of the character the i-th item of the flushed queue inserted, every
\* item of the queue being an insert of one character.
InsertedBy(i) == nextId - Len(prev.queue) + i - 1
StackItems == {undoStack[k] : k \in 1..Len(undoStack)} \cup {redoStack[k] : k \in 1..Len(redoStack)}
RemoteIds == {it.id : it \in {x \in AllItems(shared) : x.ch = 2}}

C12_TablesInverse ==
  /\ \A s \in Slots : slotAndYTextMap[s] # 0 => yTextAndSLotMap[slotAndYTextMap[s]] = s
  /\ \A t \in Texts : yTextAndSLotMap[t] # 0 => slotAndYTextMap[yTextAndSLotMap[t]] = t
  /\ \A s \in Slots :
       (\E t \in Texts : <<t, s>> \in observers) => slotAndYTextMap[s] # 0
  /\ last.kind = "slotDestroy" =>
       /\ slotAndYTextMap[last.slot] = 0
       /\ \A t \in Texts : yTextAndSLotMap[t] # last.slot /\ <<t, last.slot>> \notin observers


\* ------------------------------------------------------------------
\* C13: clear(), in any state, leaves at most one cursor-history entry, which
\* is the last one there was, index equal to the number of entries left, and
\* nothing to undo or to redo.
C13_ClearCollapses ==
  [][last'.kind = "clear" =>
       /\ Len(historyItems') <= 1
       /\ index' = Len(historyItems')
       /\ historyItems' # <<>> =>
            historyItems # <<>> /\ historyItems'[1] = historyItems[Len(historyItems)]
       /\ ~CanBack' /\ ~CanForward']_vars

\* A clear() that kept an entry, in an engine that has flushed a local edit.
C13_Witness ==
  /\ last.kind = "clear"
  /\ Len(historyItems) = 1 /\ index = 1 /\ ~historyItems[1].hole
  /\ manager = "live" /\ undoStack = <<>>

\* ------------------------------------------------------------------
\* C14: however many times listen() has been called, a flush of local edits
\* fires the applied notification once and leaves at most one cursor-history
\* entry for each edit it has flushed.
C14_ListenIdempotent ==
  last.kind = "flush" =>
    /\ Len(SelectSeq(emitted, LAMBDA x : x = "onLocalChangesApplied")) = 1
    /\ \A i \in 1..Len(prev.queue) : Cardinality(EntriesOf(prev.queue[i].n)) <= 1

\* ------------------------------------------------------------------
\* C15: once destroy() has released an engine that listened, and until the
\* next listen(), a local edit is not queued, the batching signal changes
\* nothing of the shared document, an event of the shared document changes
\* nothing of the local one, and back() and forward() change neither.
Destroyed == manager = "destroyed" /\ subscriptions = 0

C15_DestroyReleases ==
  [][Destroyed =>
       /\ last'.kind = "localInsert" => queue' = queue
       /\ last'.kind \in {"flush", "docChanged"} => shared' = shared
       /\ last'.kind = "remoteInsert" => local' = local
       /\ last'.kind \in {"back", "forward"} =>
            local' = local /\ shared' = shared /\ selection' = selection]_vars

\* ------------------------------------------------------------------
\* C16: back() with nothing to undo, or before listen(), changes nothing of
\* the engine and emits nothing; with something to undo it calls undo once,
\* which takes at least one item off the undo stack, and emits onBack once.
\* forward() likewise with the redo stack and onForward.
engineState ==
  <<local, shared, nextId, queue, updateFromRemote, pending, selection, beforePosition,
    historyItems, index, undoStack, redoStack, capturing, nEdits,
    slotAndYTextMap, yTextAndSLotMap, observers, nextText,
    manager, subscriptions, oldManagers, listens>>

C16_BackForwardGuarded ==
  [][/\ last'.kind = "back" =>
          IF CanBack
          THEN emitted' = <<"undo", "onBack">> /\ Len(undoStack') < Len(undoStack)
          ELSE emitted' = <<>> /\ UNCHANGED engineState
     /\ last'.kind = "forward" =>
          IF CanForward
          THEN emitted' = <<"redo", "onForward">> /\ Len(redoStack') < Len(redoStack)
          ELSE emitted' = <<>> /\ UNCHANGED engineState]_vars

\* A back() refused for want of anything to undo, after a back() that undid.
C16_Witness ==
  /\ last.kind = "back"
  /\ emitted = <<>>
  /\ manager = "live" /\ undoStack = <<>> /\ redoStack # <<>>

\* ------------------------------------------------------------------
\* C19: a batching signal with a change that is not remote runs the
\* transactions of its groups and then fires onLocalChangesApplied, once; a
\* signal of remote changes only, in an engine that listens, runs no
\* transaction and fires nothing.
C19_AppliedOnceAfterGroups ==
  /\ last.kind = "flush" =>
       emitted = [i \in 1..Len(txLog) |-> "transact"] \o <<"onLocalChangesApplied">>
  /\ last.kind = "docChanged" /\ subscriptions >= 1 =>
       emitted = <<>> /\ txLog = <<>>

\* ------------------------------------------------------------------
\* C18: the capture before the first local change of a batch gives a position
\* pair, of the two slots' texts, exactly when the selection has its anchor
\* and its focus set and both their slots have a text in the table; with no
\* selection, one endpoint only, or either slot without a text, it gives null.
BothBridged(sel) ==
  /\ sel # <<>>
  /\ sel[1] # 0 /\ sel[3] # 0
  /\ slotAndYTextMap[sel[1]] # 0 /\ slotAndYTextMap[sel[3]] # 0

C18_CaptureIffBothBridged ==
  [][(last'.kind = "localInsert" /\ "Local" \notin pending /\ subscriptions >= 1) =>
       IF BothBridged(selection)
       THEN /\ beforePosition' # <<>>
            /\ beforePosition'[1] = slotAndYTextMap[selection[1]]
            /\ beforePosition'[3] = slotAndYTextMap[selection[3]]
            /\ AbsOf(shared[beforePosition'[1]], beforePosition'[2]) = selection[2]
            /\ AbsOf(shared[beforePosition'[3]], beforePosition'[4]) = selection[4]
       ELSE beforePosition' = <<>>]_vars

\* A capture that gave null for a selection with both endpoints set, the
\* focus being in a slot that was torn down.
C18_Witness ==
  /\ last.kind = "localInsert"
  /\ beforePosition = <<>>
  /\ prev.selection # <<>>
  /\ prev.selection[1] = 1 /\ prev.selection[3] = 2
  /\ slotAndYTextMap[1] # 0 /\ slotAndYTextMap[2] = 0

\* ------------------------------------------------------------------
\* C17: when an undo or a redo pops an entry, the selection becomes the
\* snapshot's pair, in the slots of its two texts, if the snapshot is there,
\* both its positions resolve and both its texts have a slot in the table;
\* in every other case the selection is cleared, whole.
SnapshotOf(type, h, i) ==
  LET k == IF type = "undo" THEN i ELSE i - 1
      position == IF k + 1 \in 1..Len(h) THEN h[k + 1] ELSE Hole
  IN IF type = "undo" THEN position.before ELSE position.after

Resolves(p, sh) ==
  /\ p # <<>>
  /\ Resolvable(sh[p[1]], p[2]) /\ Resolvable(sh[p[3]], p[4])
  /\ yTextAndSLotMap[p[1]] # 0 /\ yTextAndSLotMap[p[3]] # 0

PoppedBy(kind) ==
  /\ manager = "live"
  /\ \/ kind = "back" /\ CanBack /\ PopStack(undoStack, shared).found
     \/ kind = "forward" /\ CanForward /\ PopStack(redoStack, shared).found

C17_PopClearsOrResolves ==
  [][(last'.kind \in {"back", "forward"} /\ PoppedBy(last'.kind)) =>
       LET p == SnapshotOf(IF last'.kind = "back" THEN "undo" ELSE "redo",
                           historyItems', index')
       IN IF Resolves(p, shared')
          THEN /\ selection' # <<>>
               /\ selection'[1] = yTextAndSLotMap[p[1]]
               /\ selection'[3] = yTextAndSLotMap[p[3]]
          ELSE selection' = <<>>]_vars

\* An undo that popped an entry whose snapshot has its anchor in a collected
\* text and its focus in a text that resolves and has its slot.
C17_Witness ==
  /\ last.kind = "back"
  /\ emitted = <<"undo", "onBack">> /\ redoStack # <<>>
  /\ selection = <<>>
  /\ LET p == SnapshotOf("undo", historyItems, index)
     IN /\ p # <<>>
        /\ ~Resolvable(shared[p[1]], p[2])
        /\ Resolvable(shared[p[3]], p[4]) /\ yTextAndSLotMap[p[3]] # 0

\* ------------------------------------------------------------------
\* C20: a remote insert ends in the construction error exactly when it brings
\* a component whose name has no factory, and so does a listen() that loads a
\* document holding one; and no such component is ever in a local slot.
Unregistered == Components \ Registry

C20_UnknownFactoryFails ==
  [][/\ last'.kind = "remoteInsert" =>
          (thrown' <=> \E i \in 1..Len(shared'[last'.slot]) :
                         /\ shared'[last'.slot][i].id >= nextId
                         /\ shared'[last'.slot][i].ch \in Unregistered)
     /\ (last'.kind = "listen" /\ shared # [s \in Slots |-> <<>>]) =>
          (thrown' <=> \E s \in Slots : \E i \in 1..Len(shared[s]) :
                         ~shared[s][i].del /\ shared[s][i].ch \in Unregistered)
     /\ \A s \in Slots : \A i \in 1..Len(local'[s]) : local'[s][i] \notin Unregistered]_vars

\* A remote insert of text and a component without a factory: the error is
\* raised after the text has been inserted.
C20_Witness ==
  /\ last.kind = "remoteInsert" /\ last.n = 2
  /\ thrown
  /\ \E i \in 1..Len(local[last.slot]) : local[last.slot][i] = 2
  /\ \E i \in 1..Len(shared[last.slot]) : shared[last.slot][i].ch = 4

\* ------------------------------------------------------------------
\* C22: a flush that puts a new item on the undo stack leaves the cursor
\* history with the entries it had below index, then the new pair as its last
\* entry, and index just past it; a redo that pops an item adds one to index
\* and leaves the cursor history as it was.
PushedNew ==
  /\ last'.kind = "flush"
  /\ undoStack' # <<>>
  /\ \A i \in 1..Len(undoStack) : undoStack[i].n # undoStack'[Len(undoStack')].n

C22_PushTruncatesThenAppends ==
  [][/\ PushedNew =>
          /\ historyItems' # <<>>
          /\ ~historyItems'[Len(historyItems')].hole
          /\ historyItems'[Len(historyItems')].n = undoStack'[Len(undoStack')].n
          /\ index' = Len(historyItems')
          /\ \A i \in 1..Len(historyItems') - 1 : ~historyItems'[i].hole
     /\ (last'.kind = "forward" /\ PoppedBy("forward")) =>
          index' = index + 1 /\ historyItems' = historyItems]_vars

\* ------------------------------------------------------------------
\* C25: in every state, index lies between 0 and the length of the cursor
\* history, and every element of the cursor history is a recorded pair.
C25_IndexWithinHistory ==
  /\ 0 <= index /\ index <= Len(historyItems)
  /\ \A i \in 1..Len(historyItems) : ~historyItems[i].hole

\* ------------------------------------------------------------------
\* C23: the replay of a remote event, an undo or a redo runs no transaction of
\* the engine, and what it did to the local slots is never in the queue nor in
\* a transaction of a later flush: a batching signal that finds no local edit
\* queued runs no transaction. The queue items of a replay carry number 0,
\* those of local edits their edit's number.
C23_ReplayNeverWritten ==
  /\ WasReplay =>
       txLog = <<>> /\ \A i \in 1..Len(emitted) : emitted[i] # "transact"
  /\ \A i \in 1..Len(queue) : queue[i].n >= 1
  /\ \A k \in 1..Len(txLog) : \A j \in 1..Len(txLog[k].items) : txLog[k].items[j] >= 1
  /\ (last.kind = "flush" /\ prev.queue = <<>>) => txLog = <<>>

\* The batching signal after an undo that changed the local slot, with no
\* local edit queued: the subscriber runs and makes no transaction.
C23_Witness ==
  /\ last.kind = "flush"
  /\ prev.queue = <<>> /\ txLog = <<>>
  /\ redoStack # <<>>
  /\ \E s \in Slots : \E i \in 1..Len(shared[s]) : shared[s][i].del /\ shared[s][i].ch = 1

\* ------------------------------------------------------------------
\* C24: the applying flag is down in every state between two operations, a
\* replay that failed included, and a local edit made in such a state is
\* queued.
C24_IdleAfterReplay ==
  [][/\ ~updateFromRemote'
     /\ last'.kind = "localInsert" => Len(queue') = Len(queue) + 1]_vars

\* ------------------------------------------------------------------
\* The formatters and attributes of a slot's own content are registered.
SubRegistered(slot) ==
  /\ \A a \in slot.attributes : GetAttribute(a[1].name) # <<>>
  /\ \A i \in 1..Len(slot.content) :
       \A f \in slot.content[i].formats : GetFormatter(f[1].name) # <<>>

C26_ReplayAgreesWithMaterialization ==
  [][(/\ subLast'.kind = "remoteInsert"
      /\ subLocal = <<CreateLocalSlotWithFormats(subShared[1])>>) =>
        subLocal' = <<CreateLocalSlotWithFormats(subShared'[1])>>]_vars
====
